---- MODULE Spec2Model ----
(***************************************************************************)
(* A model of elegy's structural utilities (src/elegy/utils.py) and of the *)
(* generalized-module scenarios exercised by haiku_module_test.py and      *)
(* linen_module_test.py.                                                   *)
(*                                                                         *)
(* The library is single threaded and most of it is pure, so the model is  *)
(* a family of harnesses, one specification per component: each Init draws *)
(* the inputs of the component from bounded sets and each action is one    *)
(* call of one function, translated from its code.                         *)
(***************************************************************************)
EXTENDS Integers, Sequences, FiniteSets, TLC

VARIABLES
    names,      \* get_unique_name: the used-name set (a Python set, mutated)
    calls,      \* get_unique_name: history of the calls made on `names`
    injIn,      \* inject_dependencies: f_params, rename and the wrapper's call
    injOut,     \* inject_dependencies: the calls the wrapper made to f
    tree,       \* leaf_paths / flatten_names: the nested structure passed in
    flat,       \* leaf_paths / flatten_names: what has been computed from it
    params,     \* parameters_count / parameters_bytes: the leaves of `params`
    report,     \* format_count_and_size: the count, byte size and size text
    table,      \* summary: the entries recorded during the traced call
    depth,      \* summary: the requested depth
    summary,    \* summary: the grouped rows and the totals
    held,       \* test_basic: per adapter, the (params, states) the caller holds
    hist,       \* test_basic: per adapter, the init/apply calls and their results
    heap,       \* the containers that exist, by identity (index)
    roots,      \* the values the caller holds and passes to a helper
    done        \* the helper calls made: arguments, heap before, result

namesVars == <<names, calls>>
injVars == <<injIn, injOut>>
pathVars == <<tree, flat>>
sizeVars == <<params, report>>
sumVars == <<table, depth, summary>>
modVars == <<held, hist>>
heapVars == <<heap, roots, done>>

vars == <<names, calls, injIn, injOut, tree, flat, params, report,
          table, depth, summary, held, hist, heap, roots, done>>

(***************************************************************************)
(* Generic helpers.                                                        *)
(***************************************************************************)
Range(s) == {s[i] : i \in 1..Len(s)}

RECURSIVE SumSeq(_)
SumSeq(s) == IF s = <<>> THEN 0 ELSE Head(s) + SumSeq(Tail(s))

(***************************************************************************)
(* get_unique_name  (utils.py 204-217)                                     *)
(***************************************************************************)
MaxCalls == 3

\* f"{name}_{i}"
Suffixed(name, i) == name \o "_" \o ToString(i)

\* i = 1; while f"{name}_{i}" in names: i += 1
RECURSIVE first_free(_, _, _)
first_free(used, name, i) ==
    IF Suffixed(name, i) \in used THEN first_free(used, name, i + 1) ELSE i

\* A slip of the loop: the counter starts at 0.
get_unique_name_from0(used, name) ==
    LET n == IF name \in used THEN Suffixed(name, first_free(used, name, 0))
             ELSE name
    IN  [names |-> used \cup {n}, name |-> n]

\* The value of `names` after the call and the returned name.
get_unique_name(used, name) ==
    LET n == IF name \in used THEN Suffixed(name, first_free(used, name, 1))
             ELSE name
    IN  [names |-> used \cup {n}, name |-> n]

Candidates == {"a", "a_1", "b"}
InitialNames == SUBSET {"a", "a_1", "a_2", "b"}

NamesInit ==
    /\ names \in InitialNames
    /\ calls = <<>>

NamesIdle ==
    /\ names = {}
    /\ calls = <<>>

GetUniqueName ==
    /\ Len(calls) < MaxCalls
    /\ \E c \in Candidates :
         LET r == get_unique_name(names, c)
         IN  /\ names' = r.names
             /\ calls' = Append(calls, [candidate |-> c, before |-> names,
                                        returned |-> r.name])

(***************************************************************************)
(* inject_dependencies  (utils.py 73-106)                                  *)
(***************************************************************************)
MaxParams == 3
MaxArgs == 2
MaxRename == 2

ParamNames == {"x", "rng", "key"}
KwargKeys == {"x", "y", "rng", "key"}
RenamePairs == {<<"rng", "key">>, <<"key", "rng">>, <<"y", "x">>, <<"x", "x">>}

\* The value passed under each keyword: distinct per key, so that a value
\* moved to another key is recognisable.
KwargValue == [k \in KwargKeys |-> CASE k = "x" -> 3 [] k = "y" -> 1
                                        [] k = "rng" -> 42 [] OTHER -> 7]

\* Sequences over S of length at most n without repeated elements.
DistinctSeqs(S, n) ==
    {s \in UNION {[1..m -> S] : m \in 0..n} :
        \A i, j \in 1..Len(s) : i # j => s[i] # s[j]}

\* get_function_args: inspect.signature(f).parameters, in declaration order.
\* Parameter names are unique; a **kwargs parameter comes last.
Signatures ==
    {[i \in 1..Len(ns) |-> [name |-> ns[i], kind |-> "POSITIONAL_OR_KEYWORD"]]
        : ns \in DistinctSeqs(ParamNames, MaxParams)}
    \cup
    {Append([i \in 1..Len(ns) |-> [name |-> ns[i], kind |-> "POSITIONAL_OR_KEYWORD"]],
            [name |-> "kwargs", kind |-> "VAR_KEYWORD"])
        : ns \in DistinctSeqs(ParamNames, MaxParams)}

\* `rename` is a dict: its items are visited in insertion order and its keys
\* (the old names) are unique.  None and {} both skip the loop.
Renames ==
    {r \in UNION {[1..m -> RenamePairs] : m \in 0..MaxRename} :
        \A i, j \in 1..Len(r) : i # j => r[i][1] # r[j][1]}

\* kwargs[new] = kwargs.pop(old)
pop_into(kw, old, new) ==
    [k \in (DOMAIN kw \ {old}) \cup {new} |-> IF k = new THEN kw[old] ELSE kw[k]]

\* for old, new in rename.items(): if old in kwargs: ...
\* Returns the keyword bag after every iteration (the last one is the result).
RECURSIVE rename_steps(_, _)
rename_steps(kw, rename) ==
    IF rename = <<>> THEN <<>>
    ELSE LET old == Head(rename)[1]
             new == Head(rename)[2]
             kw1 == IF old \in DOMAIN kw THEN pop_into(kw, old, new) ELSE kw
         IN  <<kw1>> \o rename_steps(kw1, Tail(rename))

Prefix(s, n) == SubSeq(s, 1, IF n < Len(s) THEN n ELSE Len(s))
Suffix(s, n) == SubSeq(s, (IF n < Len(s) THEN n ELSE Len(s)) + 1, Len(s))

\* A slip of the slice: every declared parameter counts as a keyword name.
filter_kwargs_noslice(f_params, n_args, kw) ==
    LET kwarg_names == [i \in 1..Len(f_params) |-> f_params[i].name]
    IN  [k \in {kwarg_names[i] : i \in {j \in 1..Len(kwarg_names) :
                     kwarg_names[j] \in DOMAIN kw}} |-> kw[k]]

\* The body of `if not any(arg.kind == VAR_KEYWORD ...)`: the dict
\* comprehension over kwarg_names.
filter_kwargs(f_params, n_args, kw) ==
    LET head == Prefix(f_params, n_args)
        tail == Suffix(f_params, n_args)
        arg_names == [i \in 1..Len(head) |-> head[i].name]
        kwarg_names == [i \in 1..Len(tail) |-> tail[i].name]
    IN  [k \in {kwarg_names[i] : i \in {j \in 1..Len(kwarg_names) :
                     /\ kwarg_names[j] \notin Range(arg_names)
                     /\ kwarg_names[j] \in DOMAIN kw}} |-> kw[k]]

\* wrapper(*args, **kwargs): the call it makes to f, with the keyword bag
\* after each rename iteration kept beside it.
wrapper(f_params, rename, args, kwargs) ==
    LET steps == rename_steps(kwargs, rename)
        kw1 == IF steps = <<>> THEN kwargs ELSE steps[Len(steps)]
        kw2 == IF \E i \in 1..Len(f_params) : f_params[i].kind = "VAR_KEYWORD"
               THEN kw1
               ELSE filter_kwargs(f_params, Len(args), kw1)
    IN  [args |-> args, kwargs |-> kw2, steps |-> steps]

InjInit ==
    /\ injIn \in [f_params : Signatures,
                  rename : Renames,
                  args : {[i \in 1..n |-> 100 + i] : n \in 0..MaxArgs},
                  kwargs : {[k \in K |-> KwargValue[k]] : K \in SUBSET KwargKeys}]
    /\ injOut = <<>>

InjIdle ==
    /\ injIn = <<>>
    /\ injOut = <<>>

CallWrapper ==
    /\ injOut = <<>>
    /\ injOut' = <<wrapper(injIn.f_params, injIn.rename, injIn.args, injIn.kwargs)>>
    /\ UNCHANGED injIn

(***************************************************************************)
(* Nested structures: dicts (insertion ordered), lists, tuples and leaves. *)
(***************************************************************************)
MaxNodes == 4

\* A path segment is a Python value: a str (dict key) or an int (dict key or
\* list/tuple index).  The two are kept apart, as Python keeps "0" and 0.
PyStr(s) == [str |-> s]
PyInt(i) == [int |-> i]

Leaf(v) == [kind |-> "leaf", v |-> v]
List(elems) == [kind |-> "list", elems |-> elems]
Tuple(elems) == [kind |-> "tuple", elems |-> elems]
\* entries: a sequence of <<key, value>> with distinct keys, in insertion order
Dict(entries) == [kind |-> "dict", entries |-> entries]

IsSeqKind(t) == t.kind \in {"list", "tuple"}

DictKeys == {PyStr("a"), PyInt(0)}
LeafValues == {7, 8}

KeySeqs(keys, n) == {ks \in [1..n -> keys] : \A i, j \in 1..n : i # j => ks[i] # ks[j]}

\* Every structure with exactly n nodes (containers and leaves) over the
\* given leaves and dict keys, and every sequence of structures with n nodes
\* in total.  With seqs = FALSE the containers are dicts only.
RECURSIVE TreesOfSize(_, _, _, _), Forests(_, _, _, _)
Forests(n, leaves, keys, seqs) ==
    IF n = 0 THEN {<<>>}
    ELSE UNION {{<<t>> \o f : t \in TreesOfSize(k, leaves, keys, seqs),
                              f \in Forests(n - k, leaves, keys, seqs)} : k \in 1..n}

TreesOfSize(n, leaves, keys, seqs) ==
    (IF n = 1 THEN leaves ELSE {})
    \cup UNION {(IF seqs THEN {List(f), Tuple(f)} ELSE {})
                \cup {Dict([i \in 1..Len(f) |-> <<ks[i], f[i]>>]) : ks \in KeySeqs(keys, Len(f))}
                : f \in Forests(n - 1, leaves, keys, seqs)}

Trees ==
    UNION {TreesOfSize(n, {Leaf(v) : v \in LeafValues}, DictKeys, TRUE) : n \in 1..MaxNodes}

(***************************************************************************)
(* leaf_paths  (utils.py 166-181)                                          *)
(***************************************************************************)
\* A slip: list/tuple elements do not extend the path (as in _flatten_names).
RECURSIVE leaf_paths_noindex(_, _), leaf_paths_noindex_from(_, _, _)
leaf_paths_noindex_from(path, inputs, i) ==
    IF IsSeqKind(inputs)
    THEN IF i > Len(inputs.elems) THEN <<>>
         ELSE leaf_paths_noindex(path, inputs.elems[i])
              \o leaf_paths_noindex_from(path, inputs, i + 1)
    ELSE IF i > Len(inputs.entries) THEN <<>>
         ELSE leaf_paths_noindex(Append(path, inputs.entries[i][1]), inputs.entries[i][2])
              \o leaf_paths_noindex_from(path, inputs, i + 1)

leaf_paths_noindex(path, inputs) ==
    IF inputs.kind = "leaf" THEN << <<path, inputs.v>> >>
    ELSE leaf_paths_noindex_from(path, inputs, 1)

\* _leaf_paths(path, inputs): the generator's items, in the order yielded.
\* _leaf_paths_from is the for loop from its i-th iteration on.
RECURSIVE _leaf_paths(_, _), _leaf_paths_from(_, _, _)
_leaf_paths_from(path, inputs, i) ==
    IF IsSeqKind(inputs)
    THEN IF i > Len(inputs.elems) THEN <<>>
         ELSE _leaf_paths(Append(path, PyInt(i - 1)), inputs.elems[i])
              \o _leaf_paths_from(path, inputs, i + 1)
    ELSE IF i > Len(inputs.entries) THEN <<>>
         ELSE _leaf_paths(Append(path, inputs.entries[i][1]), inputs.entries[i][2])
              \o _leaf_paths_from(path, inputs, i + 1)

_leaf_paths(path, inputs) ==
    IF IsSeqKind(inputs) \/ inputs.kind = "dict"
    THEN _leaf_paths_from(path, inputs, 1)
    ELSE << <<path, inputs.v>> >>

leaf_paths(inputs) == _leaf_paths(<<>>, inputs)

(***************************************************************************)
(* flatten_names  (utils.py 184-201)                                       *)
(***************************************************************************)
RECURSIVE _flatten_names(_, _), _flatten_names_from(_, _, _)
_flatten_names_from(path, inputs, i) ==
    IF IsSeqKind(inputs)
    THEN IF i > Len(inputs.elems) THEN <<>>
         ELSE _flatten_names(path, inputs.elems[i])
              \o _flatten_names_from(path, inputs, i + 1)
    ELSE IF i > Len(inputs.entries) THEN <<>>
         ELSE _flatten_names(Append(path, inputs.entries[i][1]), inputs.entries[i][2])
              \o _flatten_names_from(path, inputs, i + 1)

_flatten_names(path, inputs) ==
    IF IsSeqKind(inputs) \/ inputs.kind = "dict"
    THEN _flatten_names_from(path, inputs, 1)
    ELSE << <<path, inputs.v>> >>

\* str(segment)
PyToStr(seg) == IF "str" \in DOMAIN seg THEN seg.str ELSE ToString(seg.int)

\* "/".join(map(str, path))
RECURSIVE JoinSlash(_)
JoinSlash(path) ==
    IF path = <<>> THEN ""
    ELSE IF Len(path) = 1 THEN PyToStr(path[1])
    ELSE PyToStr(path[1]) \o "/" \o JoinSlash(Tail(path))

flatten_names(inputs) ==
    LET items == _flatten_names(<<>>, inputs)
    IN  [i \in 1..Len(items) |-> <<JoinSlash(items[i][1]), items[i][2]>>]

(***************************************************************************)
(* unflatten: the inverse direction of the path utilities.  The source     *)
(* holds only the flattening direction; this follows the specification's   *)
(* "flat list of (path, leaf) pairs and back": every path segment becomes  *)
(* a mapping key, in order of first appearance.                            *)
(***************************************************************************)
RECURSIVE OrderedHeads(_, _)
OrderedHeads(pairs, seen) ==
    IF pairs = <<>> THEN <<>>
    ELSE LET h == Head(pairs)[1][1]
         IN  IF h \in seen THEN OrderedHeads(Tail(pairs), seen)
             ELSE <<h>> \o OrderedHeads(Tail(pairs), seen \cup {h})

RECURSIVE TailsUnder(_, _)
TailsUnder(pairs, h) ==
    IF pairs = <<>> THEN <<>>
    ELSE IF Head(pairs)[1][1] = h
         THEN << <<Tail(Head(pairs)[1]), Head(pairs)[2]>> >> \o TailsUnder(Tail(pairs), h)
         ELSE TailsUnder(Tail(pairs), h)

RECURSIVE unflatten(_)
unflatten(pairs) ==
    IF Len(pairs) = 1 /\ pairs[1][1] = <<>> THEN Leaf(pairs[1][2])
    ELSE LET hs == OrderedHeads(pairs, {})
         IN  Dict([i \in 1..Len(hs) |-> <<hs[i], unflatten(TailsUnder(pairs, hs[i]))>>])

(***************************************************************************)
(* The harness of the path utilities.                                      *)
(***************************************************************************)
NotComputed == [pairs |-> <<>>, rebuilt |-> <<>>, pairs2 |-> <<>>, names |-> <<>>]

PathInit ==
    /\ tree \in Trees
    /\ flat = NotComputed

PathIdle ==
    /\ tree = Leaf(0)
    /\ flat = NotComputed

\* pairs = leaf_paths(tree)
LeafPaths ==
    /\ flat.pairs = <<>>
    /\ flat' = [flat EXCEPT !.pairs = <<leaf_paths(tree)>>]
    /\ UNCHANGED tree

\* rebuilt = unflatten(pairs)
Unflatten ==
    /\ flat.pairs # <<>>
    /\ flat.rebuilt = <<>>
    /\ flat' = [flat EXCEPT !.rebuilt = <<unflatten(flat.pairs[1])>>]
    /\ UNCHANGED tree

\* pairs2 = leaf_paths(rebuilt)
LeafPathsAgain ==
    /\ flat.rebuilt # <<>>
    /\ flat.pairs2 = <<>>
    /\ flat' = [flat EXCEPT !.pairs2 = <<leaf_paths(flat.rebuilt[1])>>]
    /\ UNCHANGED tree

\* names = flatten_names(tree)
FlattenNames ==
    /\ flat.names = <<>>
    /\ flat' = [flat EXCEPT !.names = <<flatten_names(tree)>>]
    /\ UNCHANGED tree

(***************************************************************************)
(* parameters_count, parameters_bytes  (utils.py 246-253)                  *)
(* format_size, format_count_and_size  (utils.py 454-474)                  *)
(***************************************************************************)
MaxLeaves == 2
\* Inputs are kept below 2^31 bytes in total, the range of TLC's integers
\* (Python's integers have no such limit).
MaxKiloBytes == 2000000

\* x.size of a leaf array
ElementCounts == {0, 1, 5, 250, 251, 1000, 1001, 1050, 1250, 1500,
                  250000, 250001, 1000000, 1000001,
                  250000000, 250000001, 1000000000, 1000000001}
\* x.dtype.itemsize: int8, int32/float32, float64
ItemSizes == {1, 4, 8}

\* sum(x.size for x in leaves)
parameters_count(leaves) == SumSeq([i \in 1..Len(leaves) |-> leaves[i].size])

\* sum(x.size * x.dtype.itemsize for x in leaves)
parameters_bytes(leaves) ==
    SumSeq([i \in 1..Len(leaves) |-> leaves[i].size * leaves[i].itemsize])

\* f"{n:03d}": the digits of a group after the first
Pad3(n) ==
    IF n < 10 THEN "00" \o ToString(n)
    ELSE IF n < 100 THEN "0" \o ToString(n)
    ELSE ToString(n)

\* f"{n:,}" for an int n >= 0
RECURSIVE Commas(_)
Commas(n) ==
    IF n < 1000 THEN ToString(n)
    ELSE Commas(n \div 1000) \o "," \o Pad3(n % 1000)

\* The text of a number of tenths with one decimal place: 60 is "6.0".
OneDecimal(tenths) == Commas(tenths \div 10) \o "." \o ToString(tenths % 10)

\* f"{size / unit :,.1f}" is the decimal with one place nearest to the double
\* size / unit.  The values it can be, as numbers of tenths: away from a tie
\* the nearest tenth; at a tie the double holds exactly (a fraction of .25 or
\* .75) the even tenth; at any other tie the double lies a rounding error
\* above or below, so either neighbour.
Rounded(size, unit) ==
    LET step == unit \div 10
        lo == size \div step
        rem == size % step
    IN  IF 2 * rem < step THEN {lo}
        ELSE IF 2 * rem > step THEN {lo + 1}
        ELSE IF size % unit \in {unit \div 4, 3 * (unit \div 4)}
             THEN {IF lo % 2 = 0 THEN lo ELSE lo + 1}
             ELSE {lo, lo + 1}

SizeText(count, units) == "[dim]" \o count \o " " \o units \o "[/dim]"

\* A slip of the comparisons: >= in place of >.
format_size_inclusive(size) ==
    IF size >= 1000000000
    THEN {[count |-> OneDecimal(t), units |-> "GB"] : t \in Rounded(size, 1000000000)}
    ELSE IF size >= 1000000
    THEN {[count |-> OneDecimal(t), units |-> "MB"] : t \in Rounded(size, 1000000)}
    ELSE IF size >= 1000
    THEN {[count |-> OneDecimal(t), units |-> "KB"] : t \in Rounded(size, 1000)}
    ELSE {[count |-> Commas(size), units |-> "B"]}

\* The (count, units) pairs format_size can compute for an int size.
format_size(size) ==
    IF size > 1000000000
    THEN {[count |-> OneDecimal(t), units |-> "GB"] : t \in Rounded(size, 1000000000)}
    ELSE IF size > 1000000
    THEN {[count |-> OneDecimal(t), units |-> "MB"] : t \in Rounded(size, 1000000)}
    ELSE IF size > 1000
    THEN {[count |-> OneDecimal(t), units |-> "KB"] : t \in Rounded(size, 1000)}
    ELSE {[count |-> Commas(size), units |-> "B"]}

Arrays ==
    {a \in [size : ElementCounts, itemsize : ItemSizes] :
        a.size <= (MaxKiloBytes * 1000) \div a.itemsize}

SizeInit ==
    /\ params \in {ls \in UNION {[1..n -> Arrays] : n \in 0..MaxLeaves} :
                     SumSeq([i \in 1..Len(ls) |->
                               (ls[i].size * ls[i].itemsize) \div 1000])
                        <= MaxKiloBytes}
    /\ report = <<>>

SizeIdle ==
    /\ params = <<>>
    /\ report = <<>>

\* format_count_and_size(params, add_padding): the count, the byte size, the
\* text format_size gives for the size, and the cell returned.
FormatCountAndSize ==
    /\ report = <<>>
    /\ LET count == parameters_count(params)
           size == parameters_bytes(params)
       IN  \E f \in format_size(size), add_padding \in BOOLEAN :
              LET padding == IF add_padding THEN "{pad}" ELSE ""
                  text == SizeText(f.count, f.units)
              IN  report' = <<[count |-> count, size |-> size, units |-> f.units,
                               text |-> text,
                               cell |-> IF count > 0
                                        THEN "[green]" \o Commas(count) \o "[/]"
                                             \o padding \o "    " \o text
                                        ELSE ""]>>
    /\ UNCHANGED params

(***************************************************************************)
(* Summary table: get_grouped_entry  (utils.py 422-440)                    *)
(*                                                                         *)
(* The entries are recorded, grouped and totalled by the summary engine,   *)
(* which is not part of the source at hand; those steps follow the         *)
(* specification (4.5, steps 1, 2 and 4).  get_grouped_entry is the code.  *)
(***************************************************************************)
MaxSummaryDepth == 3
\* float32: x.dtype.itemsize of the test modules' arrays
Float32 == 4

\* The module tree of linen_module_test.py (ModuleA > ModuleB > ModuleC with
\* the variables a1, a2 of the root shown as rows), one level deeper.
ModulePaths ==
    << <<"ModuleB_0">>, <<"ModuleB_0", "ModuleC_0">>,
       <<"ModuleB_0", "ModuleC_0", "ModuleD_0">>, <<"a1">>, <<"a2">> >>

TypeName(path) ==
    LET last == path[Len(path)]
    IN  CASE last = "ModuleB_0" -> "ModuleB" [] last = "ModuleC_0" -> "ModuleC"
          [] last = "ModuleD_0" -> "ModuleD" [] OTHER -> ""

\* (elements in "params", elements in other collections) an entry may own
OwnCounts == {<<0, 0>>, <<1, 0>>, <<0, 2>>, <<3, 4>>, <<5, 6>>}

IsPrefix(p, q) == Len(p) <= Len(q) /\ SubSeq(q, 1, Len(p)) = p

\* Every submodule invocation appends an entry keyed by its full path: the
\* paths of a table are closed under (non-empty) prefixes.
PathIndexSets ==
    {I \in SUBSET (1..Len(ModulePaths)) :
        /\ I # {}
        /\ \A i \in I : \A j \in 1..Len(ModulePaths) :
              IsPrefix(ModulePaths[j], ModulePaths[i]) => j \in I}

RECURSIVE SortedSeq(_)
SortedSeq(I) ==
    IF I = {} THEN <<>>
    ELSE LET m == CHOOSE i \in I : \A j \in I : i <= j
         IN  <<m>> \o SortedSeq(I \ {m})

SummaryTableEntry(path, own) ==
    [path |-> path,
     module_type_name |-> TypeName(path),
     output_value |-> "(10, 2)",
     trainable_params_count |-> own[1],
     trainable_params_size |-> own[1] * Float32,
     non_trainable_params_count |-> own[2],
     non_trainable_params_size |-> own[2] * Float32]

Tables ==
    UNION {{[k \in 1..Len(SortedSeq(I)) |->
               SummaryTableEntry(ModulePaths[SortedSeq(I)[k]], own[SortedSeq(I)[k]])]
            : own \in [I -> OwnCounts]} : I \in PathIndexSets}

\* The key of the group an entry is folded into: its own path down to the
\* requested depth, its ancestor at exactly that depth below it.
GroupKey(path, d) == IF Len(path) > d THEN SubSeq(path, 1, d) ELSE path

RECURSIVE SelectEntries(_, _, _)
SelectEntries(entries, key, d) ==
    IF entries = <<>> THEN <<>>
    ELSE IF GroupKey(Head(entries).path, d) = key
         THEN <<Head(entries)>> \o SelectEntries(Tail(entries), key, d)
         ELSE SelectEntries(Tail(entries), key, d)

\* depth_groups: group key -> the entries of the group, in table order
DepthGroups(entries, d) ==
    [key \in {GroupKey(entries[i].path, d) : i \in 1..Len(entries)} |->
        SelectEntries(entries, key, d)]

\* A copy-paste slip: the non-trainable count sums the trainable counts.
get_grouped_entry_slip(entry, depth_groups) ==
    LET group == depth_groups[entry.path]
        total(field) == SumSeq([i \in 1..Len(group) |-> group[i][field]])
    IN  [path |-> entry.path,
         module_type_name |-> entry.module_type_name,
         output_value |-> entry.output_value,
         trainable_params_count |-> total("trainable_params_count"),
         trainable_params_size |-> total("trainable_params_size"),
         non_trainable_params_count |-> total("trainable_params_count"),
         non_trainable_params_size |-> total("non_trainable_params_size")]

get_grouped_entry(entry, depth_groups) ==
    LET group == depth_groups[entry.path]
        total(field) == SumSeq([i \in 1..Len(group) |-> group[i][field]])
    IN  [path |-> entry.path,
         module_type_name |-> entry.module_type_name,
         output_value |-> entry.output_value,
         trainable_params_count |-> total("trainable_params_count"),
         trainable_params_size |-> total("trainable_params_size"),
         non_trainable_params_count |-> total("non_trainable_params_count"),
         non_trainable_params_size |-> total("non_trainable_params_size")]

\* [get_grouped_entry(entry, depth_groups) for entry in entries
\*      if entry.path in depth_groups]
RECURSIVE GroupedRows(_, _)
GroupedRows(entries, depth_groups) ==
    IF entries = <<>> THEN <<>>
    ELSE IF Head(entries).path \in DOMAIN depth_groups
         THEN <<get_grouped_entry(Head(entries), depth_groups)>>
              \o GroupedRows(Tail(entries), depth_groups)
         ELSE GroupedRows(Tail(entries), depth_groups)

CountFields ==
    {"trainable_params_count", "trainable_params_size",
     "non_trainable_params_count", "non_trainable_params_size"}

\* The totals row: every recorded entry counted once.
Totals(entries) ==
    [f \in CountFields |-> SumSeq([i \in 1..Len(entries) |-> entries[i][f]])]

SummaryInit ==
    /\ table \in Tables
    /\ depth \in 1..MaxSummaryDepth
    /\ summary = <<>>

SummaryIdle ==
    /\ table = <<>>
    /\ depth = 0
    /\ summary = <<>>

Summarize ==
    /\ summary = <<>>
    /\ summary' = <<[rows |-> GroupedRows(table, DepthGroups(table, depth)),
                     totals |-> Totals(table)]>>
    /\ UNCHANGED <<table, depth>>

(***************************************************************************)
(* The generalized module scenario (haiku_module_test.py 46-79,            *)
(* linen_module_test.py 42-74).                                            *)
(*                                                                         *)
(* The two test modules M are the code; the adapters (HaikuModule and the  *)
(* linen module behind generalize) are not part of the source at hand and  *)
(* follow the specification (4.1, 4.3, 4.4).  The floats of the tests      *)
(* (3.0, 2.0, 10.0) are small integers, on which float arithmetic is exact.*)
(***************************************************************************)
MaxApplies == 2

Adapters == {"haiku", "linen"}
Inputs == {3, 1}
Weights == {2, 10}

\* init=lambda *args: np.array(2.0) / lambda key: 2.0
InitialW == 2
\* init=lambda *args: np.array(0) / lambda: 0
InitialN == 0

\* A slip in the module: the counter is set to n + 2.
M_haiku_slip(x, w, n) == [y |-> x * w, n |-> n + 2]

\* haiku M.__call__(x), given the values get_parameter("w") and
\* get_state("n") return: the output and the value passed to set_state.
M_haiku(x, w, n) == [y |-> x * w, n |-> n + 1]

\* linen M.__call__(x), given the value of param "w", whether the variable
\* batch_stats/n existed before the call and its value if so: the output
\* and the value of vn afterwards.
M_linen(x, w, has_n, n) ==
    LET initialized == has_n
        vn == IF has_n THEN n ELSE InitialN
    IN  [y |-> x * w, n |-> IF initialized THEN vn + 1 ELSE vn]

\* init(rng)(x): one trace with the initializers' values; returns the
\* output, the parameters and the initial state.
AdapterInit(a, x) ==
    IF a = "haiku"
    THEN [y |-> M_haiku(x, InitialW, InitialN).y, w |-> InitialW, n |-> InitialN]
    ELSE LET r == M_linen(x, InitialW, FALSE, InitialN)
         IN  [y |-> r.y, w |-> InitialW, n |-> r.n]

\* apply(params, states)(x): one trace on the supplied values; returns the
\* output, the parameters as supplied and the state the trace left.
AdapterApply(a, w, n, x) ==
    LET r == IF a = "haiku" THEN M_haiku(x, w, n) ELSE M_linen(x, w, TRUE, n)
    IN  [y |-> r.y, w |-> w, n |-> r.n]

ModInit ==
    /\ held = [a \in Adapters |-> <<>>]
    /\ hist = [a \in Adapters |-> <<>>]

ModIdle ==
    /\ held = <<>>
    /\ hist = <<>>

\* y_true, params, states = gm.init(rng)(x=x, y=1)
GmInit(a) ==
    /\ hist[a] = <<>>
    /\ \E x \in Inputs :
         LET r == AdapterInit(a, x)
         IN  /\ held' = [held EXCEPT ![a] = <<[w |-> r.w, n |-> r.n]>>]
             /\ hist' = [hist EXCEPT ![a] = <<[op |-> "init", x |-> x, w |-> InitialW,
                                               y |-> r.y, params |-> r.w, states |-> r.n]>>]

\* params = params.copy(dict(w=w)); y_true, params, states =
\*     gm.apply(params, states, training=True, rng=rng)(x=x, y=1)
GmApply(a) ==
    /\ hist[a] # <<>>
    /\ Len(hist[a]) <= MaxApplies
    /\ \E x \in Inputs, w \in Weights :
         LET r == AdapterApply(a, w, held[a][1].n, x)
         IN  /\ held' = [held EXCEPT ![a] = <<[w |-> r.w, n |-> r.n]>>]
             /\ hist' = [hist EXCEPT ![a] = Append(@, [op |-> "apply", x |-> x, w |-> w,
                                               y |-> r.y, params |-> r.w, states |-> r.n])]

(***************************************************************************)
(* Containers with identity.  A Python dict, list, tuple or set is an      *)
(* object on the heap; a value is a leaf or a reference to an object, so   *)
(* that mutating a container a caller handed in, or returning it, shows.   *)
(***************************************************************************)
MaxMergeNodes == 5
MaxParamNodes == 4
MaxRest == 2
MaxKeys == 2

Ref(i) == [ref |-> i]
IsRef(v) == "ref" \in DOMAIN v
KindOf(h, v) == IF IsRef(v) THEN h[v.ref].kind ELSE "leaf"
DictObj(entries) == [kind |-> "dict", entries |-> entries]
SeqObj(kind, elems) == [kind |-> kind, elems |-> elems]
SetObj(members) == [kind |-> "set", members |-> members]
NoValue == [none |-> TRUE]

\* A new object: the heap with it and the reference to it.
Alloc(h, obj) == [h |-> Append(h, obj), v |-> Ref(Len(h) + 1)]

\* The structure t built out of fresh objects.
RECURSIVE Store(_, _), StoreAll(_, _, _)
StoreAll(h, ts, i) ==
    IF i > Len(ts) THEN [h |-> h, vals |-> <<>>]
    ELSE LET s == Store(h, ts[i])
             rest == StoreAll(s.h, ts, i + 1)
         IN  [h |-> rest.h, vals |-> <<s.v>> \o rest.vals]

Store(h, t) ==
    IF t.kind = "leaf" THEN [h |-> h, v |-> t]
    ELSE IF t.kind = "dict"
    THEN LET kids == StoreAll(h, [i \in 1..Len(t.entries) |-> t.entries[i][2]], 1)
         IN  Alloc(kids.h, DictObj([i \in 1..Len(t.entries) |->
                                      <<t.entries[i][1], kids.vals[i]>>]))
    ELSE LET kids == StoreAll(h, t.elems, 1)
         IN  Alloc(kids.h, SeqObj(t.kind, kids.vals))

\* The structure a value stands for.
RECURSIVE Deref(_, _)
Deref(h, v) ==
    IF ~IsRef(v) THEN v
    ELSE LET o == h[v.ref]
         IN  IF o.kind = "dict"
             THEN Dict([i \in 1..Len(o.entries) |->
                          <<o.entries[i][1], Deref(h, o.entries[i][2])>>])
             ELSE IF o.kind = "set" THEN o
             ELSE [kind |-> o.kind, elems |-> [i \in 1..Len(o.elems) |-> Deref(h, o.elems[i])]]

\* key in d / d[key] / d[key] = val on a dict's entries
HasKey(entries, key) == \E i \in 1..Len(entries) : entries[i][1] = key
GetItem(entries, key) == entries[CHOOSE i \in 1..Len(entries) : entries[i][1] = key][2]
SetItem(entries, key, val) ==
    IF HasKey(entries, key)
    THEN [i \in 1..Len(entries) |->
            IF entries[i][1] = key THEN <<key, val>> ELSE entries[i]]
    ELSE Append(entries, <<key, val>>)

(***************************************************************************)
(* merge_params  (utils.py 276-300)                                        *)
(***************************************************************************)
\* raise ValueError(...): no value is returned
Raise(h) == [h |-> h, v |-> NoValue, err |-> TRUE]
Return(a) == [h |-> a.h, v |-> a.v, err |-> FALSE]

\* set(a) | set(b), as a sequence.  The iteration order of a set is not
\* specified; this is one order (a's keys, then b's new ones).  The keys of
\* the result are the same under any order.
KeyUnion(ea, eb) ==
    [i \in 1..Len(ea) |-> ea[i][1]]
    \o SelectSeq([i \in 1..Len(eb) |-> eb[i][1]], LAMBDA k : ~HasKey(ea, k))

\* A slip of the last branch: the second value wins instead of raising.
merge_other_last_wins(h, a, b) == [h |-> h, v |-> b, err |-> FALSE]

\* The final else of merge_params: neither two dicts, two lists nor two
\* tuples.
merge_other(h, a, b) == Raise(h)

RECURSIVE merge_params(_, _, _), merge_items(_, _, _, _, _), merge_zip(_, _, _, _)
\* The dict comprehension from the i-th key on.
merge_items(h, ea, eb, keys, i) ==
    IF i > Len(keys) THEN [h |-> h, out |-> <<>>, err |-> FALSE]
    ELSE LET key == keys[i]
             m == IF ~HasKey(eb, key) THEN [h |-> h, v |-> GetItem(ea, key), err |-> FALSE]
                  ELSE IF ~HasKey(ea, key) THEN [h |-> h, v |-> GetItem(eb, key), err |-> FALSE]
                  ELSE merge_params(h, GetItem(ea, key), GetItem(eb, key))
         IN  IF m.err THEN [h |-> m.h, out |-> <<>>, err |-> TRUE]
             ELSE LET rest == merge_items(m.h, ea, eb, keys, i + 1)
                  IN  [h |-> rest.h, out |-> << <<key, m.v>> >> \o rest.out, err |-> rest.err]

\* merge_params(a, b) for a, b in zip(a, b), from the i-th pair on.
merge_zip(h, xs, ys, i) ==
    IF i > Len(xs) \/ i > Len(ys) THEN [h |-> h, out |-> <<>>, err |-> FALSE]
    ELSE LET m == merge_params(h, xs[i], ys[i])
         IN  IF m.err THEN [h |-> m.h, out |-> <<>>, err |-> TRUE]
             ELSE LET rest == merge_zip(m.h, xs, ys, i + 1)
                  IN  [h |-> rest.h, out |-> <<m.v>> \o rest.out, err |-> rest.err]

merge_params(h, a, b) ==
    IF KindOf(h, a) = "dict" /\ KindOf(h, b) = "dict"
    THEN LET ea == h[a.ref].entries
             eb == h[b.ref].entries
             m == merge_items(h, ea, eb, KeyUnion(ea, eb), 1)
         IN  IF m.err THEN Raise(m.h) ELSE Return(Alloc(m.h, DictObj(m.out)))
    ELSE IF KindOf(h, a) = "list" /\ KindOf(h, b) = "list"
    THEN IF Len(h[a.ref].elems) # Len(h[b.ref].elems) THEN Raise(h)
         ELSE LET m == merge_zip(h, h[a.ref].elems, h[b.ref].elems, 1)
              IN  IF m.err THEN Raise(m.h) ELSE Return(Alloc(m.h, SeqObj("list", m.out)))
    ELSE IF KindOf(h, a) = "tuple" /\ KindOf(h, b) = "tuple"
    THEN IF Len(h[a.ref].elems) # Len(h[b.ref].elems) THEN Raise(h)
         ELSE LET m == merge_zip(h, h[a.ref].elems, h[b.ref].elems, 1)
              IN  IF m.err THEN Raise(m.h)
                  \* tuple(...) of nothing is the one empty tuple, which a is
                  ELSE IF m.out = <<>> THEN Return([h |-> m.h, v |-> a])
                  ELSE Return(Alloc(m.h, SeqObj("tuple", m.out)))
    ELSE merge_other(h, a, b)

(***************************************************************************)
(* get_unique_name on a set the caller owns  (utils.py 204-217)            *)
(***************************************************************************)
\* names.add(name) happens in the caller's set object.
get_unique_name_in(h, names_, name) ==
    LET r == get_unique_name(h[names_.ref].members, name)
    IN  [h |-> [h EXCEPT ![names_.ref] = SetObj(r.names)], v |-> r.name, err |-> FALSE]

(***************************************************************************)
(* merge_with_unique_names  (utils.py 220-243)                             *)
(***************************************************************************)
\* A slip: the dict itself instead of a copy of it.
dict_copy_alias(h, a) == [h |-> h, v |-> a]

\* a.copy() / dict(a): a new dict with the same entries (the values are
\* shared).
dict_copy(h, a) == Alloc(h, DictObj(h[a.ref].entries))

\* for name, value in b.items(): output[get_unique_name(names, name)] = value
\* from the i-th item on; used is the local set names.
RECURSIVE unique_items(_, _, _, _)
unique_items(output, used, eb, i) ==
    IF i > Len(eb) THEN output
    ELSE LET r == get_unique_name(used, eb[i][1].str)
         IN  unique_items(SetItem(output, PyStr(r.name), eb[i][2]), r.names, eb, i + 1)

\* names = set(); output = dict(a); ...; return output
_merge_with_unique_names(h, a, b) ==
    LET output == dict_copy(h, a)
        filled == unique_items(output.h[output.v.ref].entries, {}, h[b.ref].entries, 1)
    IN  [h |-> [output.h EXCEPT ![output.v.ref] = DictObj(filled)], v |-> output.v]

\* for b in rest: a = _merge_with_unique_names(a, b), from the i-th on
RECURSIVE merge_rest(_, _, _, _)
merge_rest(h, a, rest, i) ==
    IF i > Len(rest) THEN [h |-> h, v |-> a]
    ELSE LET m == _merge_with_unique_names(h, a, rest[i])
         IN  merge_rest(m.h, m.v, rest, i + 1)

merge_with_unique_names(h, a, rest) ==
    LET a0 == dict_copy(h, a)
        m == merge_rest(a0.h, a0.v, rest, 1)
    IN  [h |-> m.h, v |-> m.v, err |-> FALSE]

(***************************************************************************)
(* split_into_collections, unwrap_filter  (utils.py 355-387)               *)
(***************************************************************************)
\* types.Parameter(collection, value): a leaf carrying its collection
Parameter(collection, value) == Leaf([collection |-> collection, value |-> value])
\* isinstance(parameter, types.Parameter)
IsParameter(v) == ~IsRef(v)

\* A slip of the filter: every parameter passes.
keeps_all(collection, p) == TRUE

\* lambda p: p.collection == collection
keeps(collection, p) == p.collection = collection

RECURSIVE unwrap_filter(_, _, _), unwrap_items(_, _, _, _)
\* for name, parameter in parameters.items(): ..., from the i-th item on
unwrap_items(h, collection, entries, i) ==
    IF i > Len(entries) THEN [h |-> h, out |-> <<>>]
    ELSE LET name == entries[i][1]
             parameter == entries[i][2]
         IN  IF IsParameter(parameter)
             THEN LET rest == unwrap_items(h, collection, entries, i + 1)
                  IN  [h |-> rest.h,
                       out |-> (IF keeps(collection, parameter.v)
                                THEN << <<name, Leaf(parameter.v.value)>> >>
                                ELSE <<>>) \o rest.out]
             ELSE LET sub == unwrap_filter(h, collection, parameter)
                      rest == unwrap_items(sub.h, collection, entries, i + 1)
                  IN  [h |-> rest.h, out |-> << <<name, sub.v>> >> \o rest.out]

\* unwrap_filter(lambda p: p.collection == collection, parameters)
unwrap_filter(h, collection, parameters) ==
    LET m == unwrap_items(h, collection, h[parameters.ref].entries, 1)
        outputs == Alloc(m.h, DictObj(m.out))
    IN  [h |-> outputs.h, v |-> outputs.v, err |-> FALSE]

\* jax.tree_map(find_collections, parameters): the collections of the leaves
RECURSIVE all_collections(_, _)
all_collections(h, v) ==
    IF IsParameter(v) THEN {v.v.collection}
    ELSE UNION {all_collections(h, h[v.ref].entries[i][2]) : i \in 1..Len(h[v.ref].entries)}

\* {collection: unwrap_filter(...) for collection in all_collections}, from
\* the i-th collection on.  order is the order the set is iterated in.
RECURSIVE split_from(_, _, _, _)
split_from(h, parameters, order, i) ==
    IF i > Len(order) THEN [h |-> h, out |-> <<>>]
    ELSE LET u == unwrap_filter(h, order[i], parameters)
             rest == split_from(u.h, parameters, order, i + 1)
         IN  [h |-> rest.h, out |-> << <<PyStr(order[i]), u.v>> >> \o rest.out]

split_into_collections(h, parameters, order) ==
    LET m == split_from(h, parameters, order, 1)
        result == Alloc(m.h, DictObj(m.out))
    IN  [h |-> result.h, v |-> result.v, err |-> FALSE]

(***************************************************************************)
(* apply on containers: params and states are dicts; the call reads them  *)
(* and returns the output with a new params and a new states dict.         *)
(***************************************************************************)
apply(h, adapter, params_, states_, x) ==
    LET w == GetItem(h[params_.ref].entries, PyStr("w")).v
        n == GetItem(h[states_.ref].entries, PyStr("n")).v
        r == AdapterApply(adapter, w, n, x)
        new_params == Alloc(h, DictObj(<< <<PyStr("w"), Leaf(r.w)>> >>))
        new_states == Alloc(new_params.h, DictObj(<< <<PyStr("n"), Leaf(r.n)>> >>))
    IN  [h |-> new_states.h,
         v |-> [y |-> r.y, params |-> new_params.v, states |-> new_states.v],
         err |-> FALSE]

(***************************************************************************)
(* The harness of the structural helpers: the caller builds the arguments, *)
(* makes one call and keeps what it returned.                              *)
(***************************************************************************)
StrKeys == {PyStr("a"), PyStr("b")}

\* Structures to merge; the leaves of the first are 1, of the second 2, so
\* that the origin of a leaf of the result shows.
MergeTrees(n, v) == TreesOfSize(n, {Leaf(v)}, StrKeys, TRUE)

\* Dicts to merge under unique names: the j-th value of the i-th dict is
\* 10 * i + j, a leaf or wrapped in a dict of its own.
NameKeys == {"a", "a_1"}
KeyLists == UNION {KeySeqs(NameKeys, n) : n \in 0..MaxKeys}
NamedDict(ks, i, nested) ==
    Dict([j \in 1..Len(ks) |->
            <<PyStr(ks[j]),
              IF nested THEN Dict(<< <<PyStr("k"), Leaf(10 * i + j)>> >>)
              ELSE Leaf(10 * i + j)>>])

\* Nested mappings of Parameter leaves.
Collections == {"parameters", "states"}
ParamValue == 5
ParamTrees ==
    UNION {{t \in TreesOfSize(n, {Parameter(c, ParamValue) : c \in Collections},
                              StrKeys, FALSE) : t.kind = "dict"}
           : n \in 1..MaxParamNodes}

Orders(S) == KeySeqs(S, Cardinality(S))

HeapOf(ts) == StoreAll(<<>>, ts, 1)
Given(kind, ts) ==
    /\ heap = HeapOf(ts).h
    /\ roots = [kind |-> kind, vals |-> HeapOf(ts).vals]

HeapInit ==
    /\ \/ \E n \in 1..MaxMergeNodes : \E m \in 1..(MaxMergeNodes - n) :
            \E a \in MergeTrees(n, 1) : \E b \in MergeTrees(m, 2) :
               Given("merge", <<a, b>>)
       \/ \E k \in 0..MaxRest : \E kss \in [1..(k + 1) -> KeyLists] :
            \E nested \in BOOLEAN :
               Given("dicts", [i \in 1..(k + 1) |-> NamedDict(kss[i], i, nested)])
       \/ \E t \in ParamTrees : Given("params", <<t>>)
       \/ \E s \in InitialNames :
            /\ heap = <<SetObj(s)>>
            /\ roots = [kind |-> "names", vals |-> <<Ref(1)>>]
       \/ \E w \in Weights, n \in 0..MaxApplies :
            Given("apply", <<Dict(<< <<PyStr("w"), Leaf(w)>> >>),
                             Dict(<< <<PyStr("n"), Leaf(n)>> >>)>>)
    /\ done = <<>>

HeapIdle ==
    /\ heap = <<>>
    /\ roots = <<>>
    /\ done = <<>>

CallRecord(op, args, r) ==
    [op |-> op, args |-> args, pre |-> heap, ret |-> r.v, err |-> r.err]

Called(op, args, r) ==
    /\ heap' = r.h
    /\ done' = <<CallRecord(op, args, r)>>
    /\ UNCHANGED roots

\* merge_params(a, b)
MergeParams ==
    /\ done = <<>>
    /\ roots.kind = "merge"
    /\ Called("merge_params", roots.vals,
              merge_params(heap, roots.vals[1], roots.vals[2]))

\* merge_with_unique_names(a, *rest)
MergeWithUniqueNames ==
    /\ done = <<>>
    /\ roots.kind = "dicts"
    /\ Called("merge_with_unique_names", roots.vals,
              merge_with_unique_names(heap, Head(roots.vals), Tail(roots.vals)))

\* split_into_collections(parameters)
SplitIntoCollections ==
    /\ done = <<>>
    /\ roots.kind = "params"
    /\ \E order \in Orders(all_collections(heap, roots.vals[1])) :
         Called("split_into_collections", roots.vals,
                split_into_collections(heap, roots.vals[1], order))

\* unwrap_filter(lambda p: p.collection == collection, parameters)
UnwrapFilter ==
    /\ done = <<>>
    /\ roots.kind = "params"
    /\ \E collection \in Collections :
         Called("unwrap_filter", <<collection, roots.vals[1]>>,
                unwrap_filter(heap, collection, roots.vals[1]))

\* get_unique_name(names, name)
GetUniqueNameIn ==
    /\ done = <<>>
    /\ roots.kind = "names"
    /\ \E name \in Candidates :
         Called("get_unique_name", <<roots.vals[1], name>>,
                get_unique_name_in(heap, roots.vals[1], name))

\* y, params, states = apply(params, states)(x)
Apply ==
    /\ done = <<>>
    /\ roots.kind = "apply"
    /\ \E adapter \in Adapters, x \in Inputs :
         Called("apply", roots.vals,
                apply(heap, adapter, roots.vals[1], roots.vals[2], x))

(***************************************************************************)
(* Specifications.                                                         *)
(***************************************************************************)
GroupInit(sel) ==
    /\ IF sel = "names" THEN NamesInit ELSE NamesIdle
    /\ IF sel = "inject" THEN InjInit ELSE InjIdle
    /\ IF sel = "paths" THEN PathInit ELSE PathIdle
    /\ IF sel = "size" THEN SizeInit ELSE SizeIdle
    /\ IF sel = "summary" THEN SummaryInit ELSE SummaryIdle
    /\ IF sel = "module" THEN ModInit ELSE ModIdle
    /\ IF sel = "helpers" THEN HeapInit ELSE HeapIdle

Frame(sel) ==
    /\ IF sel = "names" THEN TRUE ELSE UNCHANGED namesVars
    /\ IF sel = "inject" THEN TRUE ELSE UNCHANGED injVars
    /\ IF sel = "paths" THEN TRUE ELSE UNCHANGED pathVars
    /\ IF sel = "size" THEN TRUE ELSE UNCHANGED sizeVars
    /\ IF sel = "summary" THEN TRUE ELSE UNCHANGED sumVars
    /\ IF sel = "module" THEN TRUE ELSE UNCHANGED modVars
    /\ IF sel = "helpers" THEN TRUE ELSE UNCHANGED heapVars

InitNames == GroupInit("names")
NextNames == GetUniqueName /\ Frame("names")
SpecNames == InitNames /\ [][NextNames]_vars

InitInject == GroupInit("inject")
NextInject == CallWrapper /\ Frame("inject")
SpecInject == InitInject /\ [][NextInject]_vars

InitPaths == GroupInit("paths")
NextPaths ==
    \/ LeafPaths /\ Frame("paths")
    \/ Unflatten /\ Frame("paths")
    \/ LeafPathsAgain /\ Frame("paths")
    \/ FlattenNames /\ Frame("paths")
SpecPaths == InitPaths /\ [][NextPaths]_vars

InitSize == GroupInit("size")
NextSize == FormatCountAndSize /\ Frame("size")
SpecSize == InitSize /\ [][NextSize]_vars

InitSummary == GroupInit("summary")
NextSummary == Summarize /\ Frame("summary")
SpecSummary == InitSummary /\ [][NextSummary]_vars

InitModule == GroupInit("module")
NextModule ==
    \/ \E a \in Adapters : GmInit(a) /\ Frame("module")
    \/ \E a \in Adapters : GmApply(a) /\ Frame("module")
SpecModule == InitModule /\ [][NextModule]_vars

InitHelpers == GroupInit("helpers")
NextHelpers ==
    \/ MergeParams /\ Frame("helpers")
    \/ MergeWithUniqueNames /\ Frame("helpers")
    \/ SplitIntoCollections /\ Frame("helpers")
    \/ UnwrapFilter /\ Frame("helpers")
    \/ GetUniqueNameIn /\ Frame("helpers")
    \/ Apply /\ Frame("helpers")
SpecHelpers == InitHelpers /\ [][NextHelpers]_vars

(***************************************************************************)
(* C1                                                                      *)
(***************************************************************************)
CallInputs(h, i) == [k \in 1..i |-> <<h[k].op, h[k].x, h[k].w>>]
CallResult(c) == <<c.y, c.params, c.states>>

\* C1: for both adapters, init with x returns x * 2, params w = 2 and state
\* n = 0 (the initial state); the k-th following apply, fed the previous
\* call's states and any w, returns x * w, params w unchanged and n = k; so
\* init(3) gives 6, 2, 0 and a following apply with w = 10 gives 30, 10, 1;
\* and the two adapters return the same values for the same calls.
C1_InitApply ==
    /\ \A a \in Adapters : \A i \in 1..Len(hist[a]) :
         LET c == hist[a][i]
         IN  /\ i = 1 => /\ c.op = "init"
                         /\ CallResult(c) = <<c.x * 2, 2, 0>>
                         /\ c.x = 3 => c.y = 6
             /\ i > 1 => /\ c.op = "apply"
                         /\ CallResult(c) = <<c.x * c.w, c.w, i - 1>>
             /\ (i = 2 /\ c.x = 3 /\ c.w = 10) => CallResult(c) = <<30, 10, 1>>
             /\ i = Len(hist[a]) => held[a] = <<[w |-> c.params, n |-> c.states]>>
    /\ \A i \in 1..Len(hist["haiku"]) :
         (/\ i <= Len(hist["linen"])
          /\ CallInputs(hist["haiku"], i) = CallInputs(hist["linen"], i))
         => CallResult(hist["haiku"][i]) = CallResult(hist["linen"][i])

\* Both adapters ran the tests' scenario: init with x = 3, then apply with
\* w overridden to 10.
C1_Witness ==
    \A a \in Adapters :
       /\ Len(hist[a]) = 2
       /\ hist[a][1].x = 3
       /\ hist[a][2].x = 3 /\ hist[a][2].w = 10
       /\ hist[a][2].y = 30 /\ hist[a][2].states = 1

(***************************************************************************)
(* C2                                                                      *)
(***************************************************************************)
\* "old is moved to new": k1 is k0 with old's value stored under new and old
\* gone, when old is present; otherwise nothing changes.
Moved(k0, k1, old, new) ==
    IF old \in DOMAIN k0
    THEN /\ DOMAIN k1 = (DOMAIN k0 \ {old}) \cup {new}
         /\ k1[new] = k0[old]
         /\ \A k \in DOMAIN k1 \ {new} : k1[k] = k0[k]
    ELSE k1 = k0

HasVarKeyword(f_params) ==
    \E i \in 1..Len(f_params) : f_params[i].kind = "VAR_KEYWORD"

\* C2: the wrapper first applies rename (each old key present is moved to its
\* new key, in the order of the rename dict), then calls f with the
\* positional arguments unchanged and with every keyword when the signature
\* has **kwargs, otherwise with exactly the keywords that name a declared
\* parameter after the first n positional ones; other keywords are dropped.
C2_InjectForwards ==
    \A c \in 1..Len(injOut) :
       LET call == injOut[c]
           n == Len(injIn.args)
           fp == injIn.f_params
           before(i) == IF i = 1 THEN injIn.kwargs ELSE call.steps[i - 1]
           renamed == IF injIn.rename = <<>> THEN injIn.kwargs
                      ELSE call.steps[Len(call.steps)]
           declared == {fp[i].name : i \in (n + 1)..Len(fp)}
       IN  /\ Len(injOut) = 1
           /\ call.args = injIn.args
           /\ Len(call.steps) = Len(injIn.rename)
           /\ \A i \in 1..Len(injIn.rename) :
                 Moved(before(i), call.steps[i], injIn.rename[i][1], injIn.rename[i][2])
           /\ HasVarKeyword(fp) => call.kwargs = renamed
           /\ ~HasVarKeyword(fp) =>
                 /\ DOMAIN call.kwargs = DOMAIN renamed \cap declared
                 /\ \A k \in DOMAIN call.kwargs : call.kwargs[k] = renamed[k]
                 /\ \A i \in 1..n : i <= Len(fp) => fp[i].name \notin DOMAIN call.kwargs

\* A call shaped like the test's: a three-parameter signature without **kwargs,
\* one positional argument filling x, and keywords x, y, rng where rng is
\* renamed to key: y and x are dropped, key is forwarded with rng's value.
C2_Witness ==
    /\ Len(injOut) = 1
    /\ ~HasVarKeyword(injIn.f_params)
    /\ Len(injIn.f_params) = 3
    /\ injIn.f_params[1].name = "x"
    /\ Len(injIn.args) = 1
    /\ DOMAIN injIn.kwargs = {"x", "y", "rng"}
    /\ injIn.rename = << <<"rng", "key">> >>
    /\ DOMAIN injOut[1].kwargs = {"key"}
    /\ injOut[1].kwargs["key"] = 42

(***************************************************************************)
(* C3                                                                      *)
(***************************************************************************)
\* The set `names` as it was left by call i (the next call's `before`, or
\* the current set after the last call).
AfterCall(i) == IF i < Len(calls) THEN calls[i + 1].before ELSE names

\* C3: every get_unique_name call on a shared used-name set returns the
\* candidate itself when it is unused, otherwise candidate_i for the smallest
\* i >= 1 such that candidate_i is unused; the returned name was not in the
\* set before the call, the call adds exactly that name to the set, all
\* returned names are pairwise distinct, and "a","a","a" on an empty set
\* gives "a","a_1","a_2".
C3_UniqueNames ==
    /\ \A i \in 1..Len(calls) :
         LET c == calls[i]
         IN  /\ c.candidate \notin c.before => c.returned = c.candidate
             /\ c.candidate \in c.before =>
                  \E k \in 1..(Cardinality(c.before) + 1) :
                     /\ c.returned = Suffixed(c.candidate, k)
                     /\ \A j \in 1..(k - 1) : Suffixed(c.candidate, j) \in c.before
             /\ c.returned \notin c.before
             /\ AfterCall(i) = c.before \cup {c.returned}
    /\ \A i, j \in 1..Len(calls) : i # j => calls[i].returned # calls[j].returned
    /\ (/\ Len(calls) = 3
        /\ calls[1].before = {}
        /\ \A i \in 1..3 : calls[i].candidate = "a")
       => <<calls[1].returned, calls[2].returned, calls[3].returned>>
            = <<"a", "a_1", "a_2">>

\* Three calls with the same candidate on a set that already held it: the
\* suffix search ran and skipped at least one taken suffix.
C3_Witness ==
    /\ Len(calls) = 3
    /\ \A i \in 1..3 : calls[i].candidate = "a"
    /\ "a" \in calls[1].before
    /\ "a_1" \in calls[1].before
    /\ calls[3].returned = "a_4"

(***************************************************************************)
(* C4                                                                      *)
(***************************************************************************)
RECURSIVE NumLeaves(_)
NumLeaves(t) ==
    IF t.kind = "leaf" THEN 1
    ELSE IF t.kind = "dict"
         THEN SumSeq([i \in 1..Len(t.entries) |-> NumLeaves(t.entries[i][2])])
         ELSE SumSeq([i \in 1..Len(t.elems) |-> NumLeaves(t.elems[i])])

\* The position (1-based) of the child of container t that segment seg
\* addresses: the entry with that key of a dict, element seg of a list or
\* tuple; 0 when there is none.
ChildPos(t, seg) ==
    IF t.kind = "dict"
    THEN IF \E i \in 1..Len(t.entries) : t.entries[i][1] = seg
         THEN CHOOSE i \in 1..Len(t.entries) : t.entries[i][1] = seg
         ELSE 0
    ELSE IF t.kind = "leaf" \/ "int" \notin DOMAIN seg THEN 0
    ELSE IF seg.int + 1 \in 1..Len(t.elems) THEN seg.int + 1 ELSE 0

Child(t, pos) == IF t.kind = "dict" THEN t.entries[pos][2] ELSE t.elems[pos]

\* The child positions passed when following path p from t; <<0>> when the
\* path leaves the structure.
RECURSIVE Walk(_, _)
Walk(t, p) ==
    IF p = <<>> THEN <<>>
    ELSE LET pos == ChildPos(t, Head(p))
         IN  IF pos = 0 THEN <<0>>
             ELSE <<pos>> \o Walk(Child(t, pos), Tail(p))

RECURSIVE At(_, _)
At(t, walk) == IF walk = <<>> THEN t ELSE At(Child(t, Head(walk)), Tail(walk))

\* w1 comes strictly before w2 in a depth-first, left-to-right traversal and
\* neither is a prefix of the other.
Before(w1, w2) ==
    \E k \in 1..Len(w1) :
        /\ k <= Len(w2)
        /\ \A j \in 1..(k - 1) : w1[j] = w2[j]
        /\ w1[k] < w2[k]

PairsDescribe(t, pairs) ==
    /\ Len(pairs) = NumLeaves(t)
    /\ \A i \in 1..Len(pairs) :
         LET w == Walk(t, pairs[i][1])
         IN  /\ Len(w) = Len(pairs[i][1])
             /\ 0 \notin Range(w)
             /\ At(t, w) = Leaf(pairs[i][2])
    /\ \A i, j \in 1..Len(pairs) :
         i < j => /\ pairs[i][1] # pairs[j][1]
                  /\ Before(Walk(t, pairs[i][1]), Walk(t, pairs[j][1]))

\* C4: leaf_paths returns one (path, leaf) pair per leaf, in traversal order;
\* a pair's path holds every dict key and list/tuple index passed from the
\* root to its leaf, so following it leads to exactly that leaf and distinct
\* leaves have distinct paths; rebuilding a structure from the pairs and
\* flattening it again returns the same pairs in the same order.
C4_LeafPaths ==
    /\ flat.pairs # <<>> => PairsDescribe(tree, flat.pairs[1])
    /\ flat.pairs2 # <<>> => flat.pairs2[1] = flat.pairs[1]

\* A list nested under a dict key next to a second leaf, flattened, rebuilt
\* and flattened again.
C4_Witness ==
    /\ flat.pairs2 # <<>>
    /\ tree.kind = "dict"
    /\ Len(tree.entries) = 2
    /\ tree.entries[1][2].kind = "list"
    /\ Len(flat.pairs[1]) = 2
    /\ flat.pairs[1][1][1] = <<PyStr("a"), PyInt(0)>>
    /\ flat.pairs[1][2][1] = <<PyInt(0)>>

(***************************************************************************)
(* C5                                                                      *)
(***************************************************************************)
\* C5: flatten_names gives every leaf a name with one segment per dict key
\* and per list/tuple index on the way to it, so two different leaves of one
\* structure never receive the same name.
C5_NamesDistinct ==
    flat.names # <<>> =>
        \A i, j \in 1..Len(flat.names[1]) :
            i # j => flat.names[1][i][1] # flat.names[1][j][1]

(***************************************************************************)
(* C6                                                                      *)
(***************************************************************************)
\* The entries folded into the row of entry e at requested depth d: e
\* itself, and when e lies at exactly depth d every entry below it.
Folded(e, d) ==
    {i \in 1..Len(table) :
        \/ table[i].path = e.path
        \/ Len(e.path) = d /\ IsPrefix(e.path, table[i].path)}

RECURSIVE SumOver(_, _)
SumOver(I, f) ==
    IF I = {} THEN 0
    ELSE LET i == CHOOSE j \in I : TRUE
         IN  table[i][f] + SumOver(I \ {i}, f)

RowOf(rows, path) == CHOOSE r \in Range(rows) : r.path = path

IsScenario ==
    /\ depth = 1
    /\ table = << SummaryTableEntry(<<"ModuleB_0">>, <<3, 4>>),
                  SummaryTableEntry(<<"ModuleB_0", "ModuleC_0">>, <<5, 6>>),
                  SummaryTableEntry(<<"a1">>, <<1, 0>>),
                  SummaryTableEntry(<<"a2">>, <<0, 2>>) >>

Counts(r) ==
    <<r.trainable_params_count, r.trainable_params_size,
      r.non_trainable_params_count, r.non_trainable_params_size>>

\* C6: at requested depth d the rows are the entries at depth <= d, in table
\* order; a row keeps its entry's path, type name and output, and each of its
\* four count/size fields is the sum of that field over the entries folded
\* into it (the entry itself and, at exactly depth d, everything below it);
\* every entry is folded into exactly one row; the totals equal the sum over
\* the rows and over all entries.  In the ModuleA > ModuleB > ModuleC
\* scenario at depth 1: ModuleB_0 8 / 32 B and 10 / 40 B, a1 1 / 4 B,
\* a2 2 / 8 B, totals 9 / 36 B and 12 / 48 B, 21 / 84 B in all.
C6_GroupingConserves ==
    \A s \in Range(summary) :
       LET shown == SelectSeq(table, LAMBDA e : Len(e.path) <= depth)
       IN  /\ Len(s.rows) = Len(shown)
           /\ \A k \in 1..Len(shown) :
                 /\ s.rows[k].path = shown[k].path
                 /\ s.rows[k].module_type_name = shown[k].module_type_name
                 /\ s.rows[k].output_value = shown[k].output_value
                 /\ \A f \in CountFields :
                       s.rows[k][f] = SumOver(Folded(shown[k], depth), f)
           /\ \A i \in 1..Len(table) :
                 Cardinality({k \in 1..Len(shown) : i \in Folded(shown[k], depth)}) = 1
           /\ \A f \in CountFields :
                 /\ s.totals[f] = SumSeq([k \in 1..Len(s.rows) |-> s.rows[k][f]])
                 /\ s.totals[f] = SumOver(1..Len(table), f)
           /\ IsScenario =>
                 /\ Counts(RowOf(s.rows, <<"ModuleB_0">>)) = <<8, 32, 10, 40>>
                 /\ Counts(RowOf(s.rows, <<"a1">>)) = <<1, 4, 0, 0>>
                 /\ Counts(RowOf(s.rows, <<"a2">>)) = <<0, 0, 2, 8>>
                 /\ Len(s.rows) = 3
                 /\ s.totals["trainable_params_count"] = 9
                 /\ s.totals["trainable_params_size"] = 36
                 /\ s.totals["non_trainable_params_count"] = 12
                 /\ s.totals["non_trainable_params_size"] = 48
                 /\ s.totals["trainable_params_count"]
                      + s.totals["non_trainable_params_count"] = 21
                 /\ s.totals["trainable_params_size"]
                      + s.totals["non_trainable_params_size"] = 84

\* The test's table summarised at depth 1: ModuleC_0 was folded into the
\* ModuleB_0 row.
C6_Witness ==
    /\ IsScenario
    /\ summary # <<>>
    /\ Len(summary[1].rows) = 3
    /\ summary[1].rows[1].path = <<"ModuleB_0">>
    /\ summary[1].rows[1].trainable_params_count = 8

(***************************************************************************)
(* C7                                                                      *)
(***************************************************************************)
UnitOf(units) ==
    CASE units = "GB" -> 1000000000 [] units = "MB" -> 1000000
      [] units = "KB" -> 1000 [] OTHER -> 1

\* The numbers of tenths within half a tenth of size / unit.
NearestTenths(size, unit) ==
    {t \in {size \div (unit \div 10), size \div (unit \div 10) + 1} :
        LET d == t * (unit \div 10) - size
        IN  2 * (IF d < 0 THEN -d ELSE d) <= unit \div 10}

\* C7: the count is the sum of the leaves' element counts and the byte size
\* the sum of element count times item size; the size is shown in GB above
\* 10^9, else in MB above 10^6, else in KB above 10^3, else in B (exactly
\* 10^3, 10^6 and 10^9 fall in the lower unit); a KB/MB/GB value is the size
\* divided by the unit, to the nearest tenth, written with one decimal place,
\* and a B value is the integer itself.  5 int32 elements give count 5 and
\* "20 B"; 1,500 int32 elements give "6.0 KB".
C7_FormatSize ==
    \A r \in Range(report) :
       /\ r.count = SumSeq([i \in 1..Len(params) |-> params[i].size])
       /\ r.size = SumSeq([i \in 1..Len(params) |->
                              params[i].size * params[i].itemsize])
       /\ r.units = (IF r.size > 1000000000 THEN "GB"
                     ELSE IF r.size > 1000000 THEN "MB"
                     ELSE IF r.size > 1000 THEN "KB" ELSE "B")
       /\ r.units = "B" => r.text = SizeText(Commas(r.size), "B")
       /\ r.units # "B" =>
             \E t \in NearestTenths(r.size, UnitOf(r.units)) :
                r.text = SizeText(OneDecimal(t), r.units)
       /\ params = <<[size |-> 5, itemsize |-> 4]>> =>
             r.count = 5 /\ r.text = "[dim]20 B[/dim]"
       /\ params = <<[size |-> 1500, itemsize |-> 4]>> =>
             r.text = "[dim]6.0 KB[/dim]"
       /\ r.size = 1000 => r.text = "[dim]1,000 B[/dim]"
       /\ r.size = 1000000 => r.text = "[dim]1,000.0 KB[/dim]"
       /\ r.size = 1000000000 => r.text = "[dim]1,000.0 MB[/dim]"

\* 1,500 int32 elements were formatted, and the text is the one in KB.
C7_Witness ==
    /\ params = <<[size |-> 1500, itemsize |-> 4]>>
    /\ report # <<>>
    /\ report[1].size = 6000
    /\ report[1].text = "[dim]6.0 KB[/dim]"

(***************************************************************************)
(* C8                                                                      *)
(***************************************************************************)
SeqMap(f(_), xs) == [i \in 1..Len(xs) |-> f(xs[i])]

\* What a node is, apart from its children: a leaf with its value, or the
\* kind of a container.
Tag(t) == IF t.kind = "leaf" THEN <<"leaf", t.v>> ELSE <<t.kind>>

\* <<path, tag>> of every node of t (the root has path <<>>).
RECURSIVE Nodes(_, _)
Nodes(path, t) ==
    {<<path, Tag(t)>>}
    \cup (IF t.kind = "leaf" THEN {}
          ELSE IF t.kind = "dict"
          THEN UNION {Nodes(Append(path, t.entries[i][1]), t.entries[i][2])
                      : i \in 1..Len(t.entries)}
          ELSE UNION {Nodes(Append(path, PyInt(i - 1)), t.elems[i])
                      : i \in 1..Len(t.elems)})

PathsOf(t) == {n[1] : n \in Nodes(<<>>, t)}
NodeAt(t, p) == At(t, Walk(t, p))
Width(t) == IF IsSeqKind(t) THEN Len(t.elems) ELSE 0

\* The two values at a path differ in type, or are lists or tuples of
\* different lengths.
Mismatch(x, y) == x.kind # y.kind \/ (IsSeqKind(x) /\ Width(x) # Width(y))

MergeCalls == {c \in Range(done) : c.op = "merge_params"}
ArgTree(c, i) == Deref(c.pre, c.args[i])

MergedAll(c) ==
    /\ ~c.err
    /\ Nodes(<<>>, Deref(heap, c.ret))
         = Nodes(<<>>, ArgTree(c, 1)) \cup Nodes(<<>>, ArgTree(c, 2))

\* C8 as claimed: merge_params raises exactly when some path present in both
\* trees holds values of mismatching types or lists/tuples of different
\* lengths, and in every other case returns a tree holding every entry of
\* both.
C8_AsClaimed ==
    \A c \in MergeCalls :
       LET a == ArgTree(c, 1)
           b == ArgTree(c, 2)
       IN  IF \E p \in PathsOf(a) \cap PathsOf(b) : Mismatch(NodeAt(a, p), NodeAt(b, p))
           THEN c.err /\ c.ret = NoValue
           ELSE MergedAll(c)

\* C8, amended: merge_params raises exactly when some path present in both
\* trees holds values of mismatching types, lists/tuples of different
\* lengths, or two leaves; the error leaves no result.  In every other case
\* it returns a tree whose nodes are exactly the nodes of a and of b, each at
\* its original path (dicts merged by key union, lists and tuples position
\* by position).
C8_MergeParams ==
    \A c \in MergeCalls :
       LET a == ArgTree(c, 1)
           b == ArgTree(c, 2)
       IN  IF \E p \in PathsOf(a) \cap PathsOf(b) :
                 \/ Mismatch(NodeAt(a, p), NodeAt(b, p))
                 \/ NodeAt(a, p).kind = "leaf" /\ NodeAt(b, p).kind = "leaf"
           THEN c.err /\ c.ret = NoValue
           ELSE MergedAll(c)

\* Two dicts sharing a key whose values are dicts were merged, and the leaf
\* of the second is in the result under that key.
C8_Witness ==
    \E c \in MergeCalls :
       /\ ~c.err
       /\ <<PyStr("a")>> \in PathsOf(ArgTree(c, 1)) \cap PathsOf(ArgTree(c, 2))
       /\ <<<<PyStr("a"), PyStr("b")>>, <<"leaf", 2>>>> \in Nodes(<<>>, Deref(heap, c.ret))

(***************************************************************************)
(* C9                                                                      *)
(***************************************************************************)
\* Every object that existed before the call is as it was.
Untouched(c) ==
    /\ Len(heap) >= Len(c.pre)
    /\ SubSeq(heap, 1, Len(c.pre)) = c.pre

\* v is a container made during the call.
MadeBy(c, v) == IsRef(v) /\ v.ref > Len(c.pre)

\* C9: apply and the helpers merge_params, merge_with_unique_names,
\* split_into_collections and unwrap_filter leave every container that
\* existed before the call (the arguments, at every nesting level) unchanged
\* and return a container made during the call (a tuple, which nobody can
\* change, aside), apply also when params is unchanged; get_unique_name
\* changes its set argument only, by adding exactly the name it returns.
C9_NoArgumentMutated ==
    \A c \in Range(done) :
       IF c.op = "get_unique_name"
       THEN LET s == c.args[1].ref
            IN  heap = [c.pre EXCEPT ![s] = SetObj(c.pre[s].members \cup {c.ret})]
       ELSE /\ Untouched(c)
            /\ c.err \/ IF c.op = "apply"
                         THEN MadeBy(c, c.ret.params) /\ MadeBy(c, c.ret.states)
                         ELSE KindOf(heap, c.ret) = "tuple" \/ MadeBy(c, c.ret)

\* merge_with_unique_names returned from a call with two further dicts whose
\* values are dicts themselves, the second dict repeating a key of the first.
C9_Witness ==
    \E c \in Range(done) :
       /\ c.op = "merge_with_unique_names"
       /\ Len(c.args) = 3
       /\ LET a == c.pre[c.args[1].ref].entries
              b == c.pre[c.args[2].ref].entries
          IN  /\ a # <<>>
              /\ IsRef(a[1][2])
              /\ \E i \in 1..Len(b) : HasKey(a, b[i][1])
       /\ MadeBy(c, c.ret)

(***************************************************************************)
(* C10                                                                     *)
(***************************************************************************)
IsLeafNode(n) == n[2][1] = "leaf"
CollectionsOn(P) == {n[2][2].collection : n \in {m \in Nodes(<<>>, P) : IsLeafNode(m)}}

\* The leaves of P tagged k, unwrapped, and the mappings of P.
Unwrapped(P, k) ==
    {<<n[1], <<"leaf", n[2][2].value>>>>
       : n \in {m \in Nodes(<<>>, P) : IsLeafNode(m) /\ m[2][2].collection = k}}
Mappings(P) == {n \in Nodes(<<>>, P) : ~IsLeafNode(n)}
LeafPathsOf(t) == {n[1] : n \in {m \in Nodes(<<>>, t) : IsLeafNode(m)}}

\* C10: the result of split_into_collections has exactly one key per
\* collection that occurs on a leaf; the tree under collection k holds, at
\* the same path, the unwrapped value of exactly the leaves tagged k, and
\* every nested mapping of the input; so every leaf path of the input is a
\* leaf path of exactly one collection's tree.  unwrap_filter alone returns
\* the same tree for its collection, nested keys kept even when empty.
C10_SplitPartitions ==
    \A c \in Range(done) :
       /\ c.op = "split_into_collections" =>
            LET P == Deref(c.pre, c.args[1])
                R == Deref(heap, c.ret)
                Under(k) == GetItem(R.entries, PyStr(k))
            IN  /\ ~c.err
                /\ Len(R.entries) = Cardinality(CollectionsOn(P))
                /\ {R.entries[i][1] : i \in 1..Len(R.entries)}
                     = {PyStr(k) : k \in CollectionsOn(P)}
                /\ \A k \in CollectionsOn(P) :
                      Nodes(<<>>, Under(k)) = Unwrapped(P, k) \cup Mappings(P)
                /\ \A p \in LeafPathsOf(P) :
                      Cardinality({k \in CollectionsOn(P) : p \in LeafPathsOf(Under(k))}) = 1
       /\ c.op = "unwrap_filter" =>
            LET P == Deref(c.pre, c.args[2])
            IN  /\ ~c.err
                /\ Nodes(<<>>, Deref(heap, c.ret)) = Unwrapped(P, c.args[1]) \cup Mappings(P)

\* split_into_collections returned for a mapping with leaves of both
\* collections, one of them under a nested mapping.
C10_Witness ==
    \E c \in Range(done) :
       /\ c.op = "split_into_collections"
       /\ Cardinality(CollectionsOn(Deref(c.pre, c.args[1]))) = 2
       /\ \E p \in LeafPathsOf(Deref(c.pre, c.args[1])) : Len(p) = 2
       /\ Len(Deref(heap, c.ret).entries) = 2

(***************************************************************************)
(* C11                                                                     *)
(***************************************************************************)
EntriesOf(h, d) == h[d.ref].entries
ValuesOf(entries) == {entries[i][2] : i \in 1..Len(entries)}

\* C11: merge_with_unique_names(a, b1, ..., bk) loses no entry to a name
\* collision: the result has len(a) + len(b1) + ... + len(bk) entries, every
\* value of every input is a value of the result, and every entry of a is in
\* the result under its original key with its original value.
C11_NoEntryLost ==
    \A c \in Range(done) :
       c.op = "merge_with_unique_names" =>
          LET out == EntriesOf(heap, c.ret)
              a == EntriesOf(c.pre, c.args[1])
          IN  /\ Len(out) = SumSeq([i \in 1..Len(c.args) |-> Len(EntriesOf(c.pre, c.args[i]))])
              /\ \A i \in 1..Len(c.args) : ValuesOf(EntriesOf(c.pre, c.args[i])) \subseteq ValuesOf(out)
              /\ \A i \in 1..Len(a) : HasKey(out, a[i][1]) /\ GetItem(out, a[i][1]) = a[i][2]
====
